---- MODULE Spec2Model ----
(***************************************************************************)
(* Harmonic drive profile generators (drawings/generate_dxf.py and         *)
(* drawings/solidworks/generate_step_files.py).                            *)
(*                                                                         *)
(* Numbers.  The Python code computes in binary floating point.  Here      *)
(* every length is an integer number of micrometres (0.4 mm = 400) and     *)
(* every dimensionless real (t, progress, an angle in radians, a sine)     *)
(* is an integer number of 1/Scale units.  Every product is rounded to     *)
(* the nearest grid value, as a float product is rounded to the nearest    *)
(* float.  Sin and Cos are exact at the multiples of pi/2.                 *)
(***************************************************************************)
EXTENDS Integers, Sequences, FiniteSets, TLC

\* ---------------------------------------------------------------- bounds
\* largest num_points / num_points_per_tooth argument of a call
MaxPoints == 7
\* largest tooth count a projection is carried out for
MaxTeeth == 8
\* largest num_points_per_tooth argument of a projection
MaxPointsPerTooth == 4

\* ------------------------------------------------------------ arithmetic
\* grid of the dimensionless reals: 1.0 is Scale
Scale == 10000
\* math.pi on that grid
PI == 31416
TWO_PI == 2 * PI
HALF_PI == PI \div 2
QUARTER_PI == PI \div 4

\* a / b rounded to the nearest integer, symmetric about zero (b > 0)
Rnd(a, b) ==
    IF a >= 0 THEN (2 * a + b) \div (2 * b)
              ELSE -((2 * (-a) + b) \div (2 * b))

\* a * b for a on any grid and b dimensionless
Mul(a, b) == Rnd(a * b, Scale)

\* sine series about 0, for 0 <= x <= pi/4
SinSeries(x) ==
    LET x2 == Rnd(x * x, Scale)
        t3 == Rnd(x * x2, 6 * Scale)
        t5 == Rnd(t3 * x2, 20 * Scale)
        t7 == Rnd(t5 * x2, 42 * Scale)
    IN  x - t3 + t5 - t7

\* cosine series about 0, for 0 <= x <= pi/4
CosSeries(x) ==
    LET x2 == Rnd(x * x, Scale)
        t2 == Rnd(x2, 2)
        t4 == Rnd(t2 * x2, 12 * Scale)
        t6 == Rnd(t4 * x2, 30 * Scale)
    IN  Scale - t2 + t4 - t6

\* sine of x for 0 <= x < pi/2
SinQ(x) == IF x <= QUARTER_PI THEN SinSeries(x) ELSE CosSeries(HALF_PI - x)

\* cosine of x for 0 <= x < pi/2
CosQ(x) == IF x <= QUARTER_PI THEN CosSeries(x) ELSE SinSeries(HALF_PI - x)

\* math.sin(a): reduction to the first quadrant, then the series
Sin(a) ==
    LET r == a % TWO_PI
        q == r \div HALF_PI
        x == r % HALF_PI
    IN  CASE q = 0 -> SinQ(x)
          [] q = 1 -> CosQ(x)
          [] q = 2 -> -SinQ(x)
          [] OTHER -> -CosQ(x)

\* math.cos(a)
Cos(a) == Sin(a + HALF_PI)

\* range(n): 0 .. n-1, empty for n <= 0
Range(n) == 0 .. (n - 1)

\* ---------------------------------------------------------------- inputs
\* values of GEAR_RATIO, TOOTH_DIFFERENCE and MODULE (micrometres) a build
\* of the scripts is given; the shipped ones are 100, 2 and 0.4 mm
GearRatios == {3, 100}
ToothDifferences == {1, 2}
Modules == {400, 1000}

\* values of BOLT_HOLES a build of generate_dxf.py is given; the shipped
\* one is 6
BoltHoleCounts == {0, 1, 6}

\* num_points arguments of a call
NumPointsArgs == (-1) .. MaxPoints
\* module arguments of generate_s_curve_tooth_points (micrometres)
ModuleArgs == {-400, 0, 400}
\* profile_shift arguments of generate_s_curve_tooth_points (micrometres);
\* the flex spline is built with +0.2 mm
ProfileShiftArgs == {-500, 0, 200, 500}
\* diameter arguments of generate_circle (micrometres)
DiameterArgs == {4200, 42000}
\* (major_axis, minor_axis) arguments of generate_ellipse (micrometres)
AxesArgs == {<<80840, 78940>>, <<3000, 2000>>}
\* an optional argument: <<>> is None (the default applies), <<v>> is v
None == <<>>
\* num_teeth arguments of generate_flex_spline_teeth and
\* generate_circular_spline_teeth
NumTeethArgs == {None} \cup {<<z>> : z \in (-1) .. MaxTeeth}
\* num_points_per_tooth arguments of the same two functions
PointsPerToothArgs == (-1) .. MaxPointsPerTooth

\* ------------------------------------------------------ module constants
NotLoaded == [loaded |-> FALSE]

\* Z_FLEX = GEAR_RATIO * TOOTH_DIFFERENCE (the same line in both scripts)
Z_FLEX(gr, td) == gr * td

Z_CIRC_Subtracted(gr, td) == Z_FLEX(gr, td) - td

\* Z_CIRC = Z_FLEX + TOOTH_DIFFERENCE (the same line in both scripts)
Z_CIRC(gr, td) == Z_FLEX(gr, td) + td

ADDENDUM_Full(m) == Mul(m, 10000)

\* ADDENDUM = 0.8 * MODULE, DEDENDUM = 1.0 * MODULE
ADDENDUM(m) == Mul(m, 8000)
DEDENDUM(m) == Mul(m, 10000)

\* generate_dxf.py, DESIGN PARAMETERS: the module-level assignments
DeriveDxf(gr, td, m) ==
    LET D_PITCH_FLEX == Z_FLEX(gr, td) * m
        D_PITCH_CIRC == Z_CIRC(gr, td) * m
        D_OUTER_FLEX == D_PITCH_FLEX + (2 * ADDENDUM(m))
        T_WALL == Mul(D_PITCH_FLEX, 100)
        D_INNER_FLEX == D_OUTER_FLEX - (2 * T_WALL)
        RADIAL_DEFLECTION == Mul(m, 22500)
    IN  [loaded |-> TRUE,
         GEAR_RATIO |-> gr, TOOTH_DIFFERENCE |-> td, MODULE_ |-> m,
         Z_FLEX |-> Z_FLEX(gr, td), Z_CIRC |-> Z_CIRC(gr, td),
         D_PITCH_FLEX |-> D_PITCH_FLEX, D_PITCH_CIRC |-> D_PITCH_CIRC,
         ADDENDUM |-> ADDENDUM(m), DEDENDUM |-> DEDENDUM(m),
         TOOTH_HEIGHT |-> ADDENDUM(m) + DEDENDUM(m),
         D_OUTER_FLEX |-> D_OUTER_FLEX, T_WALL |-> T_WALL,
         D_INNER_FLEX |-> D_INNER_FLEX,
         D_INNER_CIRC |-> D_PITCH_CIRC - (2 * ADDENDUM(m)),
         D_OUTER_CIRC |-> 100000,
         BOLT_CIRCLE |-> 94000, BOLT_HOLES |-> 6, BOLT_HOLE_DIA |-> 4200,
         ELLIPSE_MAJOR |-> D_INNER_FLEX + (2 * RADIAL_DEFLECTION),
         ELLIPSE_MINOR |-> D_INNER_FLEX - 100,
         BEARING_OD |-> 42000, BEARING_ID |-> 30000, HUB_BORE |-> 10000,
         HAS_EZDXF |-> TRUE]

\* generate_step_files.py, DESIGN PARAMETERS: the module-level assignments
\* in millimetres (the *_IN values are the same lengths divided by 25.4)
DeriveStep(gr, td, m) ==
    LET PITCH_DIA_FLEX_MM == Z_FLEX(gr, td) * m
        PITCH_DIA_CIRC_MM == Z_CIRC(gr, td) * m
        FLEX_OUTER_DIA == PITCH_DIA_FLEX_MM + (2 * ADDENDUM(m))
        FLEX_WALL == Mul(PITCH_DIA_FLEX_MM, 100)
    IN  [loaded |-> TRUE,
         GEAR_RATIO |-> gr, TOOTH_DIFFERENCE |-> td, MODULE_MM |-> m,
         Z_FLEX |-> Z_FLEX(gr, td), Z_CIRC |-> Z_CIRC(gr, td),
         ADDENDUM_MM |-> ADDENDUM(m), DEDENDUM_MM |-> DEDENDUM(m),
         TOOTH_HEIGHT_MM |-> ADDENDUM(m) + DEDENDUM(m),
         TIP_RADIUS_MM |-> Mul(m, 8000), ROOT_RADIUS_MM |-> Mul(m, 12000),
         PROFILE_SHIFT_FLEX_MM |-> 200, PROFILE_SHIFT_CIRC_MM |-> -200,
         PITCH_DIA_FLEX_MM |-> PITCH_DIA_FLEX_MM,
         PITCH_DIA_CIRC_MM |-> PITCH_DIA_CIRC_MM,
         FLEX_OUTER_DIA |-> FLEX_OUTER_DIA, FLEX_WALL |-> FLEX_WALL,
         FLEX_INNER_DIA |-> FLEX_OUTER_DIA - (2 * FLEX_WALL),
         CIRC_INNER_DIA |-> PITCH_DIA_CIRC_MM - (2 * ADDENDUM(m)),
         BOLT_CIRCLE |-> 94000, NUM_BOLTS |-> 6, BOLT_HOLE_DIA |-> 4200]

\* ------------------------------------------------------- call outcomes
\* a call returns a list of (x, y) points ...
Return(points) == [status |-> "returned", points |-> points]
\* ... or an exception leaves it
Raise(exception) == [status |-> exception, points |-> <<>>]
\* no call made yet
NoResult == [status |-> "none", points |-> <<>>]
NoCall == [fn |-> "none"]
\* no earlier call's result is being held
NoMemo == [call |-> NoCall, result |-> NoResult]

\* ------------------------------------------------ generate_dxf.py
\* one pass of the loop body of generate_tooth_profile (num_points > 0)
ToothProfilePoint(p, i, num_points) ==
    LET circular_pitch == Mul(p.MODULE_, PI)
        t == Rnd(i * Scale, num_points)
        x == Mul(circular_pitch, t - (Scale \div 2))
        rising == Mul(PI, 2 * t)
        falling == Mul(PI, 2 * (t - (Scale \div 2)))
        y == IF 2 * t < Scale
             THEN -p.DEDENDUM
                  + Rnd((p.DEDENDUM + p.ADDENDUM) * (Scale - Cos(rising)), 2 * Scale)
             ELSE p.ADDENDUM
                  - Rnd((p.DEDENDUM + p.ADDENDUM) * (Scale - Cos(falling)), 2 * Scale)
    IN  <<x, y>>

generate_tooth_profile_NoEndpoint(p, num_points) ==
    IF Range(num_points + 1) = {} THEN Return(<<>>)
    ELSE IF num_points = 0 THEN Raise("ZeroDivisionError")
    ELSE Return([k \in 1 .. num_points |->
                    ToothProfilePoint(p, k - 1, num_points)])

\* generate_tooth_profile(num_points): range(num_points + 1), t = i / num_points
generate_tooth_profile(p, num_points) ==
    IF Range(num_points + 1) = {} THEN Return(<<>>)
    ELSE IF num_points = 0 THEN Raise("ZeroDivisionError")
    ELSE Return([k \in 1 .. (num_points + 1) |->
                    ToothProfilePoint(p, k - 1, num_points)])

\* the points the loop of generate_ellipse appends: range(num_points)
EllipseSamples(a, b, num_points) ==
    [k \in 1 .. (IF num_points > 0 THEN num_points ELSE 0) |->
        LET angle == Rnd(TWO_PI * (k - 1), num_points)
        IN  <<Mul(a, Cos(angle)), Mul(b, Sin(angle))>>]

CloseCurve_NotClosed(points) ==
    IF Len(points) = 0 THEN Raise("IndexError")
    ELSE Return(points)

\* points.append(points[0]); return points
CloseCurve(points) ==
    IF Len(points) = 0 THEN Raise("IndexError")
    ELSE Return(Append(points, points[1]))

\* generate_ellipse(major_axis, minor_axis, num_points)
generate_ellipse(major_axis, minor_axis, num_points) ==
    CloseCurve(EllipseSamples(Rnd(major_axis, 2), Rnd(minor_axis, 2), num_points))

\* generate_circle(diameter, num_points)
generate_circle(diameter, num_points) ==
    CloseCurve(EllipseSamples(Rnd(diameter, 2), Rnd(diameter, 2), num_points))

\* if num_teeth is None: num_teeth = Z_FLEX (or Z_CIRC)
TeethOrDefault(num_teeth, default) ==
    IF num_teeth = None THEN default ELSE num_teeth[1]

AngleOffset_NextTooth(tooth, num_teeth) == Rnd(TWO_PI * (tooth + 1), num_teeth)

\* angle_offset = (2 * math.pi * tooth) / num_teeth
AngleOffset(tooth, num_teeth) == Rnd(TWO_PI * tooth, num_teeth)

\* tooth_angle = px / radius
ToothAngle(px, radius) == Rnd(px * Scale, radius)

\* r = radius + py (generate_flex_spline_teeth)
ExternalRadius(radius, py) == radius + py

InternalRadius_Added(radius, py) == radius + py

\* r = radius - py (generate_circular_spline_teeth)
InternalRadius(radius, py) == radius - py

\* the body of the inner loop: one profile point of one tooth, with the
\* locals total_angle and r it is computed from
ProjectPoint(pt, tooth, num_teeth, radius, internal) ==
    LET total_angle == AngleOffset(tooth, num_teeth) + ToothAngle(pt[1], radius)
        r == IF internal THEN InternalRadius(radius, pt[2])
                         ELSE ExternalRadius(radius, pt[2])
    IN  [point |-> <<Mul(r, Cos(total_angle)), Mul(r, Sin(total_angle))>>,
         total_angle |-> total_angle,
         r |-> r]

\* the two nested loops: for tooth in range(num_teeth), for px, py in
\* tooth_profile; px / radius raises when radius is 0
ProjectTeeth(tooth_profile, num_teeth, radius, internal) ==
    LET L == Len(tooth_profile)
        Z == IF num_teeth > 0 THEN num_teeth ELSE 0
        projected == [q \in 1 .. (Z * L) |->
                        ProjectPoint(tooth_profile[((q - 1) % L) + 1],
                                     (q - 1) \div L, num_teeth, radius, internal)]
    IN  IF Z * L > 0 /\ radius = 0 THEN Raise("ZeroDivisionError")
        ELSE [status |-> "returned",
              points |-> [q \in 1 .. (Z * L) |-> projected[q].point],
              total_angle |-> [q \in 1 .. (Z * L) |-> projected[q].total_angle],
              r |-> [q \in 1 .. (Z * L) |-> projected[q].r]]

\* generate_flex_spline_teeth(num_teeth, num_points_per_tooth); an exception
\* of generate_tooth_profile leaves the function
generate_flex_spline_teeth(p, num_teeth, num_points_per_tooth) ==
    LET radius == Rnd(p.D_PITCH_FLEX, 2)
        tooth_profile == generate_tooth_profile(p, num_points_per_tooth)
    IN  IF tooth_profile.status # "returned" THEN tooth_profile
        ELSE ProjectTeeth(tooth_profile.points,
                          TeethOrDefault(num_teeth, p.Z_FLEX), radius, FALSE)

\* generate_circular_spline_teeth(num_teeth, num_points_per_tooth)
generate_circular_spline_teeth(p, num_teeth, num_points_per_tooth) ==
    LET radius == Rnd(p.D_PITCH_CIRC, 2)
        tooth_profile == generate_tooth_profile(p, num_points_per_tooth)
    IN  IF tooth_profile.status # "returned" THEN tooth_profile
        ELSE ProjectTeeth(tooth_profile.points,
                          TeethOrDefault(num_teeth, p.Z_CIRC), radius, TRUE)

\* msp.add_circle(center, radius, dxfattribs={'layer': layer})
Circle(layer, center, radius) ==
    [kind |-> "CIRCLE", layer |-> layer, center |-> center, radius |-> radius]

\* msp.add_lwpolyline(points, close=True, dxfattribs={'layer': layer})
Polyline(layer, points) ==
    [kind |-> "LWPOLYLINE", layer |-> layer, points |-> points, close |-> TRUE]

BoltHoles_HalfTurn(p) ==
    [k \in 1 .. (IF p.BOLT_HOLES > 0 THEN p.BOLT_HOLES ELSE 0) |->
        LET angle == Rnd(PI * (k - 1), p.BOLT_HOLES)
        IN  Circle("HOLES",
                   <<Mul(Rnd(p.BOLT_CIRCLE, 2), Cos(angle)),
                     Mul(Rnd(p.BOLT_CIRCLE, 2), Sin(angle))>>,
                   Rnd(p.BOLT_HOLE_DIA, 2))]

\* create_dxf_files, "# Bolt holes": for i in range(BOLT_HOLES)
BoltHoles(p) ==
    [k \in 1 .. (IF p.BOLT_HOLES > 0 THEN p.BOLT_HOLES ELSE 0) |->
        LET angle == Rnd(TWO_PI * (k - 1), p.BOLT_HOLES)
        IN  Circle("HOLES",
                   <<Mul(Rnd(p.BOLT_CIRCLE, 2), Cos(angle)),
                     Mul(Rnd(p.BOLT_CIRCLE, 2), Sin(angle))>>,
                   Rnd(p.BOLT_HOLE_DIA, 2))]

\* create_coordinate_files: the four point lists handed to save_coordinates
create_coordinate_files(p) ==
    [status |-> "returned",
     points |-> <<>>,
     files |->
        [flex_spline_teeth |-> generate_flex_spline_teeth(p, None, 10).points,
         circular_spline_teeth |->
            generate_circular_spline_teeth(p, None, 10).points,
         wave_generator_ellipse |->
            generate_ellipse(p.ELLIPSE_MAJOR, p.ELLIPSE_MINOR, 360).points,
         single_tooth_profile |-> generate_tooth_profile(p, 50).points]]

\* create_dxf_files: the entities added to the modelspace of each of the
\* three drawings, in the order they are added; without ezdxf the
\* coordinate files are written instead
create_dxf_files(p) ==
    IF ~p.HAS_EZDXF THEN create_coordinate_files(p)
    ELSE
    [status |-> "returned",
     points |-> <<>>,
     files |->
        [flex_spline |->
            << Polyline("TEETH", generate_flex_spline_teeth(p, None, 20).points),
               Circle("INNER", <<0, 0>>, Rnd(p.D_INNER_FLEX, 2)) >>,
         circular_spline |->
            << Circle("OUTER", <<0, 0>>, Rnd(p.D_OUTER_CIRC, 2)),
               Polyline("TEETH",
                        generate_circular_spline_teeth(p, None, 20).points) >>
            \o BoltHoles(p),
         wave_generator |->
            << Polyline("CAM",
                        generate_ellipse(p.ELLIPSE_MAJOR, p.ELLIPSE_MINOR,
                                         360).points),
               Circle("BEARING", <<0, 0>>, Rnd(p.BEARING_OD, 2)),
               Circle("HUB", <<0, 0>>, Rnd(p.BEARING_ID, 2)),
               Circle("BORE", <<0, 0>>, Rnd(p.HUB_BORE, 2)) >>]]

\* ------------------------------------------- generate_step_files.py
\* the locals generate_s_curve_tooth_points computes before its loops
ToothSpec_ShiftAdded(module, profile_shift) ==
    LET pitch == Mul(module, PI)
    IN  [pitch |-> pitch,
         addendum |-> Mul(module, 8000) + profile_shift,
         dedendum |-> Mul(module, 10000) + profile_shift,
         tooth_width |-> Rnd(pitch, 2),
         r_tip |-> Mul(module, 8000),
         r_root |-> Mul(module, 12000)]

ToothSpec(module, profile_shift) ==
    LET pitch == Mul(module, PI)
    IN  [pitch |-> pitch,
         addendum |-> Mul(module, 8000) + profile_shift,
         dedendum |-> Mul(module, 10000) - profile_shift,
         tooth_width |-> Rnd(pitch, 2),
         r_tip |-> Mul(module, 8000),
         r_root |-> Mul(module, 12000)]

\* one pass of the loop body of the is_internal branch (num_points > 1)
InternalPoint(ts, i, num_points) ==
    LET t == Rnd(i * Scale, num_points - 1)
        left == Mul(PI, Scale - 2 * t)
        right == Mul(PI, 2 * t - Scale)
    IN  IF 2 * t <= Scale
        THEN << -Rnd(ts.tooth_width, 4) + Rnd(Mul(ts.r_root, Cos(left)), 2),
                -ts.dedendum + Mul(ts.addendum + ts.dedendum, 2 * t) >>
        ELSE << Rnd(ts.tooth_width, 4) - Rnd(Mul(ts.r_root, Cos(right)), 2),
                ts.addendum
                - Mul(ts.addendum + ts.dedendum, 2 * (t - (Scale \div 2))) >>

\* one pass of the loop body of the external branch (num_points > 1)
ExternalPoint(ts, i, num_points) ==
    LET t == Rnd(i * Scale, num_points - 1)
        up == 2 * t
        down == 2 * (t - (Scale \div 2))
    IN  IF 2 * t <= Scale
        THEN << Mul(-Rnd(ts.tooth_width, 3), Scale - up),
                -ts.dedendum
                + Mul(ts.addendum + ts.dedendum, Sin(Rnd(Mul(PI, up), 2))) >>
        ELSE << Mul(Rnd(ts.tooth_width, 3), down),
                -ts.dedendum
                + Mul(ts.addendum + ts.dedendum,
                      Sin(Rnd(Mul(PI, Scale - down), 2))) >>

generate_s_curve_tooth_points_ExtraSample(module, num_points, is_internal, profile_shift) ==
    LET ts == ToothSpec(module, profile_shift)
    IN  IF Range(num_points) = {} THEN Return(<<>>)
        ELSE IF num_points - 1 = 0 THEN Raise("ZeroDivisionError")
        ELSE Return([k \in 1 .. (IF is_internal THEN num_points ELSE num_points + 1) |->
                        IF is_internal THEN InternalPoint(ts, k - 1, num_points)
                                       ELSE ExternalPoint(ts, k - 1, num_points)])

\* generate_s_curve_tooth_points(module, num_points, is_internal, profile_shift):
\* range(num_points), t = i / (num_points - 1)
generate_s_curve_tooth_points(module, num_points, is_internal, profile_shift) ==
    LET ts == ToothSpec(module, profile_shift)
    IN  IF Range(num_points) = {} THEN Return(<<>>)
        ELSE IF num_points - 1 = 0 THEN Raise("ZeroDivisionError")
        ELSE Return([k \in 1 .. num_points |->
                        IF is_internal THEN InternalPoint(ts, k - 1, num_points)
                                       ELSE ExternalPoint(ts, k - 1, num_points)])

\* ------------------------------------------------------------- state
VARIABLES
    dxf,     \* module-level constants of generate_dxf.py, once imported
    step,    \* module-level constants of generate_step_files.py, once imported
    call,    \* the last generator call: function and arguments
    result,  \* what that call did: the points returned or the exception
    memo     \* an earlier call and its result, still held by the caller

vars == <<dxf, step, call, result, memo>>

Init ==
    /\ dxf = NotLoaded
    /\ step = NotLoaded
    /\ call = NoCall
    /\ result = NoResult
    /\ memo = NoMemo

\* python runs generate_dxf.py: the module-level assignments run once.  The
\* two scripts are separate programs, neither imports the other: a process
\* holds the constants of one of them
ImportDxf ==
    /\ ~dxf.loaded
    /\ ~step.loaded
    /\ \E gr \in GearRatios, td \in ToothDifferences, m \in Modules,
          bolts \in BoltHoleCounts, ezdxf \in BOOLEAN :
          dxf' = [DeriveDxf(gr, td, m) EXCEPT !.BOLT_HOLES = bolts,
                                             !.HAS_EZDXF = ezdxf]
    /\ UNCHANGED <<step, call, result, memo>>

\* python runs generate_step_files.py
ImportStep ==
    /\ ~step.loaded
    /\ ~dxf.loaded
    /\ \E gr \in GearRatios, td \in ToothDifferences, m \in Modules :
          step' = DeriveStep(gr, td, m)
    /\ UNCHANGED <<dxf, call, result, memo>>

\* the functions are called one after the other: a call is made once the
\* caller is done with the previous one
CallToothProfile ==
    /\ dxf.loaded
    /\ call.fn = "none"
    /\ \E n \in NumPointsArgs :
          /\ call' = [fn |-> "generate_tooth_profile", num_points |-> n]
          /\ result' = generate_tooth_profile(dxf, n)
    /\ UNCHANGED <<dxf, step, memo>>

CallEllipse ==
    /\ dxf.loaded
    /\ call.fn = "none"
    /\ \E ax \in AxesArgs, n \in NumPointsArgs :
          /\ call' = [fn |-> "generate_ellipse", major_axis |-> ax[1],
                      minor_axis |-> ax[2], num_points |-> n]
          /\ result' = generate_ellipse(ax[1], ax[2], n)
    /\ UNCHANGED <<dxf, step, memo>>

CallCircle ==
    /\ dxf.loaded
    /\ call.fn = "none"
    /\ \E d \in DiameterArgs, n \in NumPointsArgs :
          /\ call' = [fn |-> "generate_circle", diameter |-> d, num_points |-> n]
          /\ result' = generate_circle(d, n)
    /\ UNCHANGED <<dxf, step, memo>>

CallFlexSplineTeeth_StoresTeeth ==
    /\ dxf.loaded
    /\ call.fn = "none"
    /\ \E z \in NumTeethArgs, n \in PointsPerToothArgs :
          /\ TeethOrDefault(z, dxf.Z_FLEX) <= MaxTeeth
          /\ call' = [fn |-> "generate_flex_spline_teeth", num_teeth |-> z,
                      num_points_per_tooth |-> n]
          /\ result' = generate_flex_spline_teeth(dxf, z, n)
          /\ dxf' = [dxf EXCEPT !.Z_FLEX = TeethOrDefault(z, dxf.Z_FLEX)]
    /\ UNCHANGED <<step, memo>>

\* a projection is carried out for at most MaxTeeth teeth
CallFlexSplineTeeth ==
    /\ dxf.loaded
    /\ call.fn = "none"
    /\ \E z \in NumTeethArgs, n \in PointsPerToothArgs :
          /\ TeethOrDefault(z, dxf.Z_FLEX) <= MaxTeeth
          /\ call' = [fn |-> "generate_flex_spline_teeth", num_teeth |-> z,
                      num_points_per_tooth |-> n]
          /\ result' = generate_flex_spline_teeth(dxf, z, n)
    /\ UNCHANGED <<dxf, step, memo>>

CallCircularSplineTeeth ==
    /\ dxf.loaded
    /\ call.fn = "none"
    /\ \E z \in NumTeethArgs, n \in PointsPerToothArgs :
          /\ TeethOrDefault(z, dxf.Z_CIRC) <= MaxTeeth
          /\ call' = [fn |-> "generate_circular_spline_teeth", num_teeth |-> z,
                      num_points_per_tooth |-> n]
          /\ result' = generate_circular_spline_teeth(dxf, z, n)
    /\ UNCHANGED <<dxf, step, memo>>

\* __main__ of generate_dxf.py: create_dxf_files(), which projects the
\* default tooth counts
CallCreateDxfFiles ==
    /\ dxf.loaded
    /\ call.fn = "none"
    /\ dxf.Z_CIRC <= MaxTeeth
    /\ call' = [fn |-> "create_dxf_files"]
    /\ result' = create_dxf_files(dxf)
    /\ UNCHANGED <<dxf, step, memo>>

CallSCurve ==
    /\ step.loaded
    /\ call.fn = "none"
    /\ \E m \in ModuleArgs, n \in NumPointsArgs, internal \in BOOLEAN,
          shift \in ProfileShiftArgs :
          /\ call' = [fn |-> "generate_s_curve_tooth_points", module |-> m,
                      num_points |-> n, is_internal |-> internal,
                      profile_shift |-> shift]
          /\ result' = generate_s_curve_tooth_points(m, n, internal, shift)
    /\ UNCHANGED <<dxf, step, memo>>

\* the caller has used the returned list (or handled the exception) and
\* drops it
Discard ==
    /\ call.fn # "none"
    /\ call' = NoCall
    /\ result' = NoResult
    /\ UNCHANGED <<dxf, step, memo>>

\* the caller keeps the returned list (or the exception it caught) in a
\* variable of its own while it goes on to call other generators
Remember ==
    /\ call.fn # "none"
    /\ memo = NoMemo
    /\ memo' = [call |-> call, result |-> result]
    /\ call' = NoCall
    /\ result' = NoResult
    /\ UNCHANGED <<dxf, step>>

Next ==
    \/ ImportDxf
    \/ ImportStep
    \/ CallToothProfile
    \/ CallEllipse
    \/ CallCircle
    \/ CallFlexSplineTeeth
    \/ CallCircularSplineTeeth
    \/ CallCreateDxfFiles
    \/ CallSCurve
    \/ Discard

Spec == Init /\ [][Next]_vars

\* a caller of the generators of one imported script: generate_dxf.py with
\* the shipped module and a tooth count whose default projection is carried
\* out, or generate_step_files.py as shipped
InitRepeat ==
    /\ \/ /\ dxf \in {DeriveDxf(gr, td, 400) :
                        gr \in {g \in GearRatios : Z_CIRC(g, 2) <= MaxTeeth},
                        td \in ToothDifferences}
          /\ step = NotLoaded
       \/ /\ dxf = NotLoaded
          /\ step = DeriveStep(100, 2, 400)
    /\ call = NoCall
    /\ result = NoResult
    /\ memo = NoMemo

\* the generator calls, by a caller that may hold on to one earlier result
NextRepeat ==
    \/ CallToothProfile
    \/ CallEllipse
    \/ CallCircle
    \/ CallFlexSplineTeeth
    \/ CallCircularSplineTeeth
    \/ CallCreateDxfFiles
    \/ CallSCurve
    \/ Discard
    \/ Remember

SpecRepeat == InitRepeat /\ [][NextRepeat]_vars

\* ------------------------------------------------------------ claims
Conics == {"generate_circle", "generate_ellipse"}
ToothGenerators == {"generate_tooth_profile", "generate_s_curve_tooth_points"}
Returned == result.status = "returned"
\* the validation errors of the error taxonomy; no statement of the code
\* raises one
Rejected == result.status \in {"InvalidParameter", "DegenerateProfile",
                               "GeometryInconsistency"}

\* C1: once a script's constants are derived, Z_flex = gearRatio x
\* toothDifference, Z_circ = Z_flex + toothDifference and each pitch diameter
\* is its tooth count times the module, in the DXF and in the STEP set.
C1_DerivedParameters ==
    /\ dxf.loaded =>
          /\ dxf.Z_FLEX = dxf.GEAR_RATIO * dxf.TOOTH_DIFFERENCE
          /\ dxf.Z_CIRC = dxf.Z_FLEX + dxf.TOOTH_DIFFERENCE
          /\ dxf.D_PITCH_FLEX = dxf.Z_FLEX * dxf.MODULE_
          /\ dxf.D_PITCH_CIRC = dxf.Z_CIRC * dxf.MODULE_
    /\ step.loaded =>
          /\ step.Z_FLEX = step.GEAR_RATIO * step.TOOTH_DIFFERENCE
          /\ step.Z_CIRC = step.Z_FLEX + step.TOOTH_DIFFERENCE
          /\ step.PITCH_DIA_FLEX_MM = step.Z_FLEX * step.MODULE_MM
          /\ step.PITCH_DIA_CIRC_MM = step.Z_CIRC * step.MODULE_MM

C1_Witness ==
    /\ step.loaded
    /\ step.GEAR_RATIO = 3 /\ step.TOOTH_DIFFERENCE = 2 /\ step.MODULE_MM = 1000
    /\ step.Z_CIRC = 8 /\ step.PITCH_DIA_CIRC_MM = 8000

\* C2: a module <= 0 (as a tooth difference or a gear ratio <= 0) is rejected
\* with a validation error and no geometry is generated from it; here for a
\* call that asks for a profile of two points or more, without profile shift.
C2_RejectsNonPositive ==
    (/\ call.fn = "generate_s_curve_tooth_points"
     /\ call.module <= 0
     /\ call.num_points >= 2
     /\ call.profile_shift = 0) => Rejected

\* the i-th sample (from 0) of a conic of semi-axes a and b with n samples
ConicSample(a, b, i, n) ==
    <<Mul(a, Cos(Rnd(TWO_PI * i, n))), Mul(b, Sin(Rnd(TWO_PI * i, n)))>>

\* the semi-axes of the conic the last call asked for
CallSemiAxes ==
    IF call.fn = "generate_circle"
    THEN <<Rnd(call.diameter, 2), Rnd(call.diameter, 2)>>
    ELSE <<Rnd(call.major_axis, 2), Rnd(call.minor_axis, 2)>>

\* n + 1 points, the last one the first one again, the first n the samples
ClosedSamples ==
    /\ Returned
    /\ Len(result.points) = call.num_points + 1
    /\ result.points[call.num_points + 1] = result.points[1]
    /\ \A i \in Range(call.num_points) :
          result.points[i + 1] =
              ConicSample(CallSemiAxes[1], CallSemiAxes[2], i, call.num_points)

\* C3 as stated: for every n, generate_circle and generate_ellipse return
\* n + 1 points, the last identical to the first, the first n the samples at
\* the angles 2 pi i / n.
C3_ClosedForEveryN ==
    call.fn \in Conics => ClosedSamples

\* C3, amended: for every n >= 1, generate_circle and generate_ellipse return
\* n + 1 points, the last identical to the first, the first n the samples at
\* the angles 2 pi i / n.
C3_ClosedCurve ==
    (call.fn \in Conics /\ call.num_points >= 1) => ClosedSamples

C3_Witness ==
    /\ call.fn = "generate_circle"
    /\ call.num_points = 5
    /\ Len(result.points) = 6
    /\ result.points[6] = result.points[1]

\* C4: generate_circle and generate_ellipse reject a point count n < 3 with
\* a validation error.
C4_RejectsFewPoints ==
    (call.fn \in Conics /\ call.num_points < 3) => Rejected

\* the tooth dimensions the last generate_s_curve_tooth_points call used
CallToothSpec == ToothSpec(call.module, call.profile_shift)

\* the last call was generate_s_curve_tooth_points with a module > 0 and a
\* profile shift that leaves addendum and dedendum non-negative
ValidToothCall ==
    /\ call.fn = "generate_s_curve_tooth_points"
    /\ call.module > 0
    /\ CallToothSpec.addendum >= 0
    /\ CallToothSpec.dedendum >= 0

\* C5 as stated: for every n >= 2 the tooth profile has n + 1 points for the
\* external variant and n points for the internal variant.
C5_ExternalHasExtraPoint ==
    (ValidToothCall /\ call.num_points >= 2) =>
        /\ Returned
        /\ Len(result.points) =
              IF call.is_internal THEN call.num_points ELSE call.num_points + 1

\* C5, amended: for every n >= 2, generate_tooth_profile returns n + 1 points
\* and generate_s_curve_tooth_points returns n points, for the external and
\* for the internal variant alike.
C5_PointCounts ==
    /\ (call.fn = "generate_tooth_profile" /\ call.num_points >= 2) =>
          (Returned /\ Len(result.points) = call.num_points + 1)
    /\ (call.fn = "generate_s_curve_tooth_points" /\ call.num_points >= 2) =>
          (Returned /\ Len(result.points) = call.num_points)

C5_Witness ==
    /\ call.fn = "generate_s_curve_tooth_points"
    /\ ~call.is_internal
    /\ call.num_points = 5
    /\ Returned
    /\ Len(result.points) = 5

\* C6: a tooth point density n < 2 is reported as an input error: no profile
\* is returned and no other error is raised.
C6_RejectsLowDensity ==
    (call.fn \in ToothGenerators /\ call.num_points < 2) => Rejected

\* C7: every profile generate_s_curve_tooth_points returns for a module > 0
\* was built with addendum >= 0 and dedendum >= 0; a profile shift that makes
\* either negative is rejected.
C7_RejectsInvertingShift ==
    (/\ call.fn = "generate_s_curve_tooth_points"
     /\ call.module > 0
     /\ call.num_points >= 2
     /\ ~Rejected) =>
        (CallToothSpec.addendum >= 0 /\ CallToothSpec.dedendum >= 0)

\* C8: for both variants and n >= 2 the profile runs root, tip, root: the
\* first and the last sample are at y = -dedendum, the sample at t = 0.5 is
\* at x = 0, y = +addendum, and the external variant runs from x = -w/3 to
\* x = +w/3.
C8_RootTipRoot ==
    (ValidToothCall /\ call.num_points >= 2 /\ Returned) =>
        LET n == call.num_points
            ts == CallToothSpec
            pts == result.points
        IN  /\ Len(pts) >= n
            /\ pts[1][2] = -ts.dedendum
            /\ pts[n][2] = -ts.dedendum
            /\ \A i \in Range(n) :
                  2 * i = n - 1 => pts[i + 1] = <<0, ts.addendum>>
            /\ ~call.is_internal =>
                  /\ pts[1][1] = -Rnd(ts.tooth_width, 3)
                  /\ pts[n][1] = Rnd(ts.tooth_width, 3)

\* C9: for module > 0 the profile does not cross itself: of two mirrored
\* samples i and n-1-i, the one on the left flank is not to the right of the
\* one on the right flank.
C9_NoSelfIntersection ==
    (ValidToothCall /\ call.num_points >= 2 /\ Returned) =>
        LET n == call.num_points
            pts == result.points
        IN  \A i \in Range(n) :
               (2 * i < n - 1 /\ Len(pts) >= n) => pts[i + 1][1] <= pts[n - i][1]

\* C10: with pointsPerTooth = 2 the generator returns three points root,
\* tip, root, the middle one at y = +addendum above the two ends at
\* y = -dedendum.
C10_TwoSegmentProfile ==
    /\ (call.fn = "generate_tooth_profile" /\ call.num_points = 2) =>
          /\ Returned
          /\ Len(result.points) = 3
          /\ result.points[1][2] = -dxf.DEDENDUM
          /\ result.points[2][2] = dxf.ADDENDUM
          /\ result.points[3][2] = -dxf.DEDENDUM
          /\ result.points[2][2] > result.points[1][2]
    /\ (ValidToothCall /\ call.num_points = 2) =>
          /\ Returned
          /\ Len(result.points) = 3
          /\ result.points[1][2] = -CallToothSpec.dedendum
          /\ result.points[2][2] = CallToothSpec.addendum
          /\ result.points[3][2] = -CallToothSpec.dedendum
          /\ result.points[2][2] > result.points[1][2]

\* ------------------------------------------------ projection claims
Projectors == {"generate_flex_spline_teeth", "generate_circular_spline_teeth"}

\* the tooth count Z the last projection call ran with
CallTeeth ==
    IF call.num_teeth # <<>> THEN call.num_teeth[1]
    ELSE IF call.fn = "generate_flex_spline_teeth" THEN dxf.Z_FLEX ELSE dxf.Z_CIRC

\* its pitch radius r
CallRadius ==
    IF call.fn = "generate_flex_spline_teeth" THEN Rnd(dxf.D_PITCH_FLEX, 2)
                                              ELSE Rnd(dxf.D_PITCH_CIRC, 2)

\* the tooth profile it replicated, and the number of points of it
CallProfile == generate_tooth_profile(dxf, call.num_points_per_tooth).points
CallProfileLen == Len(CallProfile)

\* the last call projected Z >= 1 teeth of pointsPerTooth >= 2
ProjectionCall ==
    /\ call.fn \in Projectors
    /\ CallTeeth >= 1
    /\ call.num_points_per_tooth >= 2

\* C11 as stated: for Z >= 1 and pointsPerTooth >= 2 the full-gear sequence
\* has exactly Z x pointsPerTooth points.
C11_LengthIsTeethTimesPoints ==
    ProjectionCall =>
        (Returned /\ Len(result.points) = CallTeeth * call.num_points_per_tooth)

\* C11, amended: for Z >= 1 and pointsPerTooth >= 2 the full-gear sequence
\* has exactly Z x (pointsPerTooth + 1) points.
C11_Length ==
    ProjectionCall =>
        (Returned
         /\ Len(result.points) = CallTeeth * (call.num_points_per_tooth + 1))

C11_Witness ==
    /\ call.fn = "generate_flex_spline_teeth"
    /\ call.num_teeth = <<5>>
    /\ call.num_points_per_tooth = 2
    /\ Returned
    /\ Len(result.points) = 15

\* C12: the teeth come in index order k = 0..Z-1, each tooth's points
\* contiguous and in profile order; the j-th point of tooth k is the j-th
\* profile point at angle 2 pi k / Z + px / r, and the same sample of two
\* successive teeth differs in angle by 2 pi / Z (to one grid unit).
C12_TeethInOrder ==
    ProjectionCall =>
        /\ Returned
        /\ Len(result.points) = CallTeeth * CallProfileLen
        /\ Len(result.total_angle) = CallTeeth * CallProfileLen
        /\ \A k \in Range(CallTeeth), j \in 1 .. CallProfileLen :
              LET q == k * CallProfileLen + j
                  px == CallProfile[j][1]
                  py == CallProfile[j][2]
                  angle == Rnd(TWO_PI * k, CallTeeth) + Rnd(px * Scale, CallRadius)
                  rr == IF call.fn = "generate_flex_spline_teeth"
                        THEN CallRadius + py ELSE CallRadius - py
                  step_k == result.total_angle[q + CallProfileLen]
                            - result.total_angle[q]
              IN  /\ result.total_angle[q] = angle
                  /\ result.points[q] = <<Mul(rr, Cos(angle)), Mul(rr, Sin(angle))>>
                  /\ k + 1 < CallTeeth =>
                        /\ step_k >= Rnd(TWO_PI, CallTeeth) - 1
                        /\ step_k <= Rnd(TWO_PI, CallTeeth) + 1

C12_Witness ==
    /\ call.fn = "generate_circular_spline_teeth"
    /\ call.num_teeth = <<>>
    /\ call.num_points_per_tooth = 3
    /\ dxf.Z_CIRC = 8
    /\ Returned
    /\ Len(result.total_angle) = 32
    /\ result.total_angle[6] - result.total_angle[2] = Rnd(TWO_PI, 8)

\* what rounding can add to the difference of two total_angle values: one
\* grid unit for each angle_offset, and for each px a micrometre seen from
\* the pitch radius
AngleTolerance == 2 + Rnd(2 * Scale, CallRadius)

\* C13: consecutive teeth do not overlap: the angle of the last point of
\* tooth k does not exceed the angle of the first point of tooth k+1 (by more
\* than the rounding of the angles).
C13_NoOverlap ==
    (ProjectionCall /\ Returned) =>
        \A k \in Range(CallTeeth - 1) :
           LET last == (k + 1) * CallProfileLen
           IN  Len(result.total_angle) > last =>
                  result.total_angle[last]
                      <= result.total_angle[last + 1] + AngleTolerance

\* C14: a tooth count Z <= 0 is rejected as a parameter error; no point
\* sequence is returned for it.
C14_RejectsNoTeeth ==
    (/\ call.fn \in Projectors
     /\ CallTeeth <= 0
     /\ call.num_points_per_tooth >= 2) => Rejected

\* C15: every external-projected point has radius r + py, every
\* internal-projected point radius r - py; some external point lies outside
\* the pitch circle and some internal point inside it.
C15_SignFlip ==
    ProjectionCall =>
        /\ Returned
        /\ Len(result.r) = CallTeeth * CallProfileLen
        /\ \A q \in 1 .. Len(result.r) :
              LET py == CallProfile[((q - 1) % CallProfileLen) + 1][2]
              IN  result.r[q] = IF call.fn = "generate_flex_spline_teeth"
                                THEN CallRadius + py ELSE CallRadius - py
        /\ call.fn = "generate_flex_spline_teeth" =>
              \E q \in 1 .. Len(result.r) : result.r[q] > CallRadius
        /\ call.fn = "generate_circular_spline_teeth" =>
              \E q \in 1 .. Len(result.r) : result.r[q] < CallRadius

C15_Witness ==
    /\ call.fn = "generate_circular_spline_teeth"
    /\ call.num_teeth = <<2>>
    /\ call.num_points_per_tooth = 2
    /\ Returned
    /\ Len(result.r) = 6
    /\ result.r[2] = Rnd(dxf.D_PITCH_CIRC, 2) - dxf.ADDENDUM

\* -------------------------------------------------- assembly claims
\* the entities of circular_spline.dxf on the layer HOLES, in order
HoleEntities ==
    SelectSeq(result.files.circular_spline, LAMBDA e : e.layer = "HOLES")

ShippedDxf ==
    /\ dxf.loaded
    /\ dxf.GEAR_RATIO = 100 /\ dxf.TOOTH_DIFFERENCE = 2 /\ dxf.MODULE_ = 400

ShippedStep ==
    /\ step.loaded
    /\ step.GEAR_RATIO = 100 /\ step.TOOTH_DIFFERENCE = 2
    /\ step.MODULE_MM = 400

\* C18: for module 0.4 mm, gear ratio 100 and tooth difference 2 both scripts
\* derive Z_flex = 200, Z_circ = 202, pitch diameters 80.0 mm and 80.8 mm,
\* addendum 0.32 mm and a flex spline outer diameter of 80.64 mm.
C18_ShippedValues ==
    /\ ShippedDxf =>
          /\ dxf.Z_FLEX = 200 /\ dxf.Z_CIRC = 202
          /\ dxf.D_PITCH_FLEX = 80000 /\ dxf.D_PITCH_CIRC = 80800
          /\ dxf.ADDENDUM = 320
          /\ dxf.D_OUTER_FLEX = 80640
    /\ ShippedStep =>
          /\ step.Z_FLEX = 200 /\ step.Z_CIRC = 202
          /\ step.PITCH_DIA_FLEX_MM = 80000 /\ step.PITCH_DIA_CIRC_MM = 80800
          /\ step.ADDENDUM_MM = 320
          /\ step.FLEX_OUTER_DIA = 80640

C18_Witness ==
    /\ ShippedDxf
    /\ dxf.BOLT_HOLES = 6
    /\ dxf.D_OUTER_FLEX = dxf.D_PITCH_FLEX + 640

\* ------------------------------------------------ profile shift claim
\* what the last generate_s_curve_tooth_points call returns when it is
\* repeated with profile_shift = 0
UnshiftedPoints ==
    generate_s_curve_tooth_points(call.module, call.num_points,
                                  call.is_internal, 0).points

\* the height of the y-range of a non-empty point list
YRange(points) ==
    LET ys == {points[k][2] : k \in 1 .. Len(points)}
    IN  (CHOOSE hi \in ys : \A y \in ys : y <= hi)
        - (CHOOSE lo \in ys : \A y \in ys : lo <= y)

\* C19: for every module and profile shift passed to
\* generate_s_curve_tooth_points, addendum + dedendum = 1.8 * module and the
\* pitch pi * module and the tooth width pitch / 2 do not depend on the shift;
\* every returned point has the x of the unshifted profile and its y moved by
\* profile_shift, so the y-range keeps its height.
C19_ShiftMovesSplitOnly ==
    call.fn = "generate_s_curve_tooth_points" =>
        /\ CallToothSpec.addendum + CallToothSpec.dedendum
              = Mul(call.module, 8000) + Mul(call.module, 10000)
        /\ CallToothSpec.pitch = Mul(call.module, PI)
        /\ CallToothSpec.tooth_width = Rnd(Mul(call.module, PI), 2)
        /\ Returned =>
              /\ Len(result.points) = Len(UnshiftedPoints)
              /\ \A k \in 1 .. Len(result.points) :
                    /\ result.points[k][1] = UnshiftedPoints[k][1]
                    /\ result.points[k][2]
                          = UnshiftedPoints[k][2] + call.profile_shift
              /\ result.points # <<>> =>
                    YRange(result.points) = YRange(UnshiftedPoints)

C19_Witness ==
    /\ call.fn = "generate_s_curve_tooth_points"
    /\ call.module = 400 /\ call.profile_shift = 200
    /\ call.num_points = 5 /\ ~call.is_internal
    /\ Returned
    /\ result.points[1][2] = -200
    /\ result.points[3][2] = 520
    /\ YRange(result.points) = 720

\* ------------------------------------------------- determinism claim
\* the call in progress repeats the remembered one and gives what it gave
SameCallSameResult ==
    (call # NoCall /\ call = memo.call) => result = memo.result

\* a step that makes a call leaves every module-level parameter as it was
ParametersKept ==
    call' # NoCall => (dxf' = dxf /\ step' = step)

\* C17: every generator is deterministic and free of side effects: a call
\* with the arguments of an earlier call returns what the earlier one
\* returned, whatever was called in between, and no call changes a
\* module-level parameter.
C17_Deterministic ==
    /\ []SameCallSameResult
    /\ [][ParametersKept]_vars

C17_Witness ==
    /\ memo.call.fn = "generate_flex_spline_teeth"
    /\ memo.call.num_teeth = None
    /\ call = memo.call
    /\ Returned
    /\ Len(result.points) > 0
    /\ result = memo.result

====
